---- MODULE Spec2Model ----
(***************************************************************************)
(* BHPCRH::hash of circuits/core/src/bhp/hash.rs: the in-circuit           *)
(* Bowe-Hopwood-Pedersen hash.  The base field, the twisted Edwards curve  *)
(* and its birationally equivalent Montgomery curve are instantiated with  *)
(* a small curve of the same shape as the production one (a = -1, d a      *)
(* non-square, cofactor 4, prime-order subgroup).                          *)
(***************************************************************************)
EXTENDS Integers, Naturals, Sequences, FiniteSets, TLC

VARIABLES NUM_WINDOWS, WINDOW_SIZE, bases, mode, input,
          pc, padded, win, chk, sum, acc, result, ctx, consumed, alg

vars == <<NUM_WINDOWS, WINDOW_SIZE, bases, mode, input,
          pc, padded, win, chk, sum, acc, result, ctx, consumed, alg>>

hashVars == <<NUM_WINDOWS, WINDOW_SIZE, bases, mode, input,
              pc, padded, win, chk, sum, acc, result, ctx, consumed>>

(* ---------------------------------------------------------------------- *)
(* Bounds of the model.                                                    *)
(* ---------------------------------------------------------------------- *)
\* Longest input bit string drawn.
MaxLen == 8
\* Largest NUM_WINDOWS instantiated (the smallest is 2).
MaxNumWindows == 3
\* Largest WINDOW_SIZE instantiated (the smallest is 1).
MaxWindowSize == 2
\* Number of domain labels (seeds of the base points) drawn by setup.
MaxSeed == 2
\* Candidate values 0..MaxCand drawn for the selector harness.
MaxCand == 2
\* Coordinates 0..MaxCoord drawn for the Montgomery-addition harness.
MaxCoord == 4

(* ---------------------------------------------------------------------- *)
(* E::BaseField: a prime field.                                            *)
(* ---------------------------------------------------------------------- *)
BHP_CHUNK_SIZE == 3

\* The modulus of E::BaseField.
P == 557

Fp == 0 .. (P - 1)

FAdd(a, b) == (a + b) % P
FSub(a, b) == (a - b) % P
FNeg(a) == (0 - a) % P
FMul(a, b) == (a * b) % P
FDouble(a) == (2 * a) % P
FSquare(a) == (a * a) % P

RECURSIVE FPow(_, _)
FPow(a, e) ==
    IF e = 0 THEN 1
    ELSE IF e % 2 = 0 THEN FSquare(FPow(a, e \div 2))
         ELSE FMul(a, FSquare(FPow(a, e \div 2)))

\* The inverses of the non-zero elements (Fermat).
InverseTable == [a \in 1 .. (P - 1) |-> FPow(a, P - 2)]

\* The inverse of a non-zero element; callers test for zero first.
FInv(a) == InverseTable[a]

\* E::BaseField::half()
FHalf == FInv(2)

Zero == 0
One == 1

\* Field::from_boolean
FromBoolean(b) == IF b THEN One ELSE Zero

(* ---------------------------------------------------------------------- *)
(* E::Affine: the twisted Edwards curve a*x^2 + y^2 = 1 + d*x^2*y^2 and    *)
(* its Montgomery form B*v^2 = u^3 + A*u^2 + u.                            *)
(* ---------------------------------------------------------------------- *)
EDWARDS_A == P - 1
EDWARDS_D == 13

\* MontgomeryParameters::COEFF_A = 2(a + d)/(a - d), COEFF_B = 4/(a - d)
COEFF_A == 237
COEFF_B == 318

\* Order of the prime-order subgroup the base points live in.
SubgroupOrder == 137

\* A generator of the prime-order subgroup.
Generator == <<62, 102>>

OnCurve(pt) ==
    LET x2 == FSquare(pt[1])
        y2 == FSquare(pt[2])
    IN FAdd(FMul(EDWARDS_A, x2), y2) = FAdd(One, FMul(EDWARDS_D, FMul(x2, y2)))

\* Group::zero()
GroupZero == <<Zero, One>>

\* Group addition (complete twisted Edwards addition law).
GroupAdd(p, q) ==
    LET t == FMul(EDWARDS_D, FMul(FMul(p[1], q[1]), FMul(p[2], q[2])))
    IN <<FMul(FAdd(FMul(p[1], q[2]), FMul(p[2], q[1])), FInv(FAdd(One, t))),
         FMul(FSub(FMul(p[2], q[2]), FMul(EDWARDS_A, FMul(p[1], q[1]))),
              FInv(FSub(One, t)))>>

GroupNeg(p) == <<FNeg(p[1]), p[2]>>

RECURSIVE GroupMul(_, _)
GroupMul(k, p) ==
    IF k = 0 THEN GroupZero
    ELSE IF k % 2 = 0 THEN LET h == GroupMul(k \div 2, p) IN GroupAdd(h, h)
         ELSE GroupAdd(p, GroupMul(k - 1, p))

(* ---------------------------------------------------------------------- *)
(* Circuit booleans and the emission counters of the environment E.        *)
(* ---------------------------------------------------------------------- *)
Modes == {"Constant", "Public", "Private"}

\* A Boolean<E>: its value, whether it is a constant, and the position of
\* the bit in the sequence handed to the chunking (0 before it is placed).
CircuitBoolean(v, c, i) == [value |-> v, constant |-> c, pos |-> i]

\* Inject::new(mode, input)
Inject(m, bits) ==
    [i \in 1 .. Len(bits) |-> CircuitBoolean(bits[i], m = "Constant", i)]

\* Boolean::constant(false), placed at position i.
ConstantFalse(i) == CircuitBoolean(FALSE, TRUE, i)

NoEmission == [constants |-> 0, public |-> 0, private |-> 0, constraints |-> 0]

Emit(c, e) ==
    [constants |-> c.constants + e.constants,
     public |-> c.public + e.public,
     private |-> c.private + e.private,
     constraints |-> c.constraints + e.constraints]

\* What the injection of the input has put into the context before the call.
InjectEmission(m, bits) ==
    [constants |-> IF m = "Constant" THEN Len(bits) ELSE 0,
     public |-> IF m = "Public" THEN Len(bits) ELSE 0,
     private |-> IF m = "Private" THEN Len(bits) ELSE 0,
     constraints |-> 0]

\* Field::constant / Boolean::constant: one constant.
ConstantEmission == [NoEmission EXCEPT !.constants = 1]
\* witness!: one private variable, no constraint.
WitnessEmission == [NoEmission EXCEPT !.private = 1]
\* E::enforce / E::assert_eq: one constraint.
ConstraintEmission == [NoEmission EXCEPT !.constraints = 1]
\* Boolean AND: one private variable and one constraint when neither
\* operand is a constant, nothing otherwise.
AndEmission(a, b) ==
    IF a.constant \/ b.constant THEN NoEmission
    ELSE Emit(WitnessEmission, ConstraintEmission)
\* Field division of non-constants: "2 constraints".
DivEmission == [NoEmission EXCEPT !.private = 2, !.constraints = 2]
\* Group::from_xy_coordinates: "3 constraints".
FromXYEmission == [NoEmission EXCEPT !.private = 3, !.constraints = 3]
\* Group addition: free on constants.
GroupAddEmission(accIsConstant) ==
    IF accIsConstant THEN [NoEmission EXCEPT !.private = 2, !.constraints = 2]
    ELSE [NoEmission EXCEPT !.private = 4, !.constraints = 4]
\* The 4-point ladder works on constant bases: two constants per candidate.
LadderEmission == [NoEmission EXCEPT !.constants = 8]

(* ---------------------------------------------------------------------- *)
(* Length validation and padding.                                          *)
(* ---------------------------------------------------------------------- *)
\* Mutant: the first check written with < for <=.
TooShortStrict(len, ws) == len < ws * BHP_CHUNK_SIZE

\* if input.len() <= WINDOW_SIZE * BHP_CHUNK_SIZE { E::halt(..) }
TooShort(len, ws) == len <= ws * BHP_CHUNK_SIZE

\* if input.len() > NUM_WINDOWS * WINDOW_SIZE * BHP_CHUNK_SIZE { E::halt(..) }
TooLong(len, nw, ws) == len > nw * ws * BHP_CHUNK_SIZE

\* The number of constant-false booleans appended.
Padding(len) ==
    IF len % BHP_CHUNK_SIZE # 0 THEN BHP_CHUNK_SIZE - (len % BHP_CHUNK_SIZE) ELSE 0

\* Mutant: the padding made of constant-true booleans.
PadTrue(bools) ==
    bools \o [k \in 1 .. Padding(Len(bools)) |->
                 CircuitBoolean(TRUE, TRUE, Len(bools) + k)]

\* input.extend_from_slice(&vec![Boolean::constant(false); BHP_CHUNK_SIZE][..padding])
Pad(bools) ==
    bools \o [k \in 1 .. Padding(Len(bools)) |-> ConstantFalse(Len(bools) + k)]

(* ---------------------------------------------------------------------- *)
(* slice::chunks and Iterator::zip.                                        *)
(* ---------------------------------------------------------------------- *)
Min(a, b) == IF a <= b THEN a ELSE b

\* Mutant: chunks_exact, which leaves out a shorter last slice.
ChunksExact(s, n) ==
    [k \in 1 .. (Len(s) \div n) |-> SubSeq(s, (k - 1) * n + 1, k * n)]

\* s.chunks(n): consecutive slices of n elements, the last one shorter when
\* n does not divide the length.
Chunks(s, n) ==
    [k \in 1 .. ((Len(s) + n - 1) \div n) |->
        SubSeq(s, (k - 1) * n + 1, Min(k * n, Len(s)))]

\* a.zip(b): pairs up to the shorter of the two.
Zip(a, b) == [k \in 1 .. Min(Len(a), Len(b)) |-> <<a[k], b[k]>>]

\* input.chunks(WINDOW_SIZE * BHP_CHUNK_SIZE).zip(self.bases.iter())
Windows(bools, ws, bs) == Zip(Chunks(bools, ws * BHP_CHUNK_SIZE), bs)

\* bits.chunks(BHP_CHUNK_SIZE).zip(bases)
WindowChunks(window) == Zip(Chunks(window[1], BHP_CHUNK_SIZE), window[2])

(* ---------------------------------------------------------------------- *)
(* The per-chunk computation.                                              *)
(* ---------------------------------------------------------------------- *)
\* The outcome of a computation on field pairs: a pair, or a failed
\* division or assertion (ok = FALSE).
Ok(x, y) == [ok |-> TRUE, x |-> x, y |-> y]
Failed == [ok |-> FALSE, x |-> Zero, y |-> Zero]

\* x = (1 + Y) / (1 - Y);  y = x / X
ToMontgomery(pt) ==
    IF FSub(One, pt[2]) = Zero \/ pt[1] = Zero THEN Failed
    ELSE LET x == FMul(FAdd(One, pt[2]), FInv(FSub(One, pt[2])))
         IN Ok(x, FMul(x, FInv(pt[1])))

\* for _ in 0..4 { x_bases.push(x); y_bases.push(y); acc_power += base; }
RECURSIVE Ladder(_, _, _)
Ladder(acc_power, base, n) ==
    IF n = 0 THEN <<>>
    ELSE <<ToMontgomery(acc_power)>> \o Ladder(GroupAdd(acc_power, base), base, n - 1)

\* &chunk_bits[0] & &chunk_bits[1]
BooleanAnd(a, b) == a /\ b

\* Mutant: the last coefficient with x_bases[0] subtracted.
MontgomeryXSlip(x_bases, bit_0, bit_1, bit_0_and_1) ==
    FAdd(FAdd(FAdd(x_bases[1],
                   FMul(bit_0, FSub(x_bases[2], x_bases[1]))),
              FMul(bit_1, FSub(x_bases[3], x_bases[1]))),
         FMul(bit_0_and_1,
              FSub(FSub(FSub(x_bases[4], x_bases[3]), x_bases[2]), x_bases[1])))

\* montgomery_x = x_bases[0] + bit_0 * (x_bases[1] - x_bases[0])
\*              + bit_1 * (x_bases[2] - x_bases[0])
\*              + bit_0_and_1 * (x_bases[3] - x_bases[2] - x_bases[1] + x_bases[0])
MontgomeryX(x_bases, bit_0, bit_1, bit_0_and_1) ==
    FAdd(FAdd(FAdd(x_bases[1],
                   FMul(bit_0, FSub(x_bases[2], x_bases[1]))),
              FMul(bit_1, FSub(x_bases[3], x_bases[1]))),
         FMul(bit_0_and_1,
              FAdd(FSub(FSub(x_bases[4], x_bases[3]), x_bases[2]), x_bases[1])))

\* y = y_bases[0] + bit_0 * (y_bases[1] - y_bases[0])
\*   + bit_1 * (y_bases[2] - y_bases[0])
\*   + bit_0_and_1 * (y_bases[3] - y_bases[2] - y_bases[1] + y_bases[0])
UnsignedY(y_bases, bit_0, bit_1, bit_0_and_1) ==
    FAdd(FAdd(FAdd(y_bases[1],
                   FMul(bit_0, FSub(y_bases[2], y_bases[1]))),
              FMul(bit_1, FSub(y_bases[3], y_bases[1]))),
         FMul(bit_0_and_1,
              FAdd(FSub(FSub(y_bases[4], y_bases[3]), y_bases[2]), y_bases[1])))

\* Mutant: the branches of the sign witness exchanged.
SignWitnessSwapped(bit2, y) == IF bit2 THEN y ELSE FNeg(y)

\* witness!(|chunk_bits, y| if chunk_bits[2] { -y } else { y })
SignWitness(bit2, y) == IF bit2 THEN FNeg(y) ELSE y

\* E::enforce(|| (bit_2 - &one_half, -y.double(), &montgomery_y))
SignConstraint(bit_2, y, montgomery_y) ==
    FMul(FSub(bit_2, FHalf), FNeg(FDouble(y))) = montgomery_y

\* lambda := (that_y - this_y) / (that_x - this_x)
LambdaWitness(this, that) ==
    FMul(FSub(that[2], this[2]), FInv(FSub(that[1], this[1])))

\* lambda * (that_x - this_x) == (that_y - this_y)
LambdaConstraint(lambda, this, that) ==
    FMul(lambda, FSub(that[1], this[1])) = FSub(that[2], this[2])

\* sum_x := (B * lambda^2) - A - this_x - that_x
SumXWitness(lambda, this, that) ==
    FSub(FSub(FSub(FMul(COEFF_B, FSquare(lambda)), COEFF_A), this[1]), that[1])

\* (B * lambda^2) == (A + this_x + that_x + sum_x)
SumXConstraint(lambda, sum_x, this, that) ==
    FMul(COEFF_B, FSquare(lambda)) = FAdd(FAdd(FAdd(COEFF_A, this[1]), that[1]), sum_x)

\* Mutant: the sum_y witness with the difference reversed.
SumYWitnessReversed(lambda, sum_x, this) ==
    FNeg(FAdd(this[2], FMul(lambda, FSub(this[1], sum_x))))

\* sum_y := -(this_y + (lambda * (sum_x - this_x)))
SumYWitness(lambda, sum_x, this) ==
    FNeg(FAdd(this[2], FMul(lambda, FSub(sum_x, this[1]))))

\* (lambda * (this_x - sum_x)) == (this_y + sum_y)
SumYConstraint(lambda, sum_x, sum_y, this) ==
    FMul(lambda, FSub(this[1], sum_x)) = FAdd(this[2], sum_y)

\* The incomplete addition of two Montgomery points.  The division of the
\* lambda witness has no value when that_x = this_x.
MontgomeryAdd(this, that) ==
    IF that[1] = this[1] THEN Failed
    ELSE LET lambda == LambdaWitness(this, that)
             sum_x == SumXWitness(lambda, this, that)
             sum_y == SumYWitness(lambda, sum_x, this)
         IN IF /\ LambdaConstraint(lambda, this, that)
               /\ SumXConstraint(lambda, sum_x, this, that)
               /\ SumYConstraint(lambda, sum_x, sum_y, this)
            THEN Ok(sum_x, sum_y)
            ELSE Failed

\* Three witnesses, three assertions.
MontgomeryAddEmission ==
    [NoEmission EXCEPT !.private = 3, !.constraints = 3]

\* The Montgomery point of a chunk: lines 101-148.
ChunkPoint(chunk_bits, base) ==
    LET cands == Ladder(base, base, 4)
    IN IF \E k \in 1 .. 4 : ~cands[k].ok THEN Failed
       ELSE LET x_bases == [k \in 1 .. 4 |-> cands[k].x]
                y_bases == [k \in 1 .. 4 |-> cands[k].y]
                bit_0 == FromBoolean(chunk_bits[1].value)
                bit_1 == FromBoolean(chunk_bits[2].value)
                bit_2 == FromBoolean(chunk_bits[3].value)
                bit_0_and_1 ==
                    FromBoolean(BooleanAnd(chunk_bits[1].value, chunk_bits[2].value))
                montgomery_x == MontgomeryX(x_bases, bit_0, bit_1, bit_0_and_1)
                y == UnsignedY(y_bases, bit_0, bit_1, bit_0_and_1)
                montgomery_y == SignWitness(chunk_bits[3].value, y)
            IN IF SignConstraint(bit_2, y, montgomery_y)
               THEN Ok(montgomery_x, montgomery_y)
               ELSE Failed

\* Mutant: the sign done by a branch on the bit, which witnesses and
\* constrains the negation only when the bit is set.
ChunkEmissionBranching(chunk_bits) ==
    Emit(Emit(Emit(LadderEmission,
                   AndEmission(chunk_bits[1], chunk_bits[2])),
              IF chunk_bits[3].value THEN Emit(WitnessEmission, ConstraintEmission)
              ELSE NoEmission),
         MontgomeryAddEmission)

\* What one iteration of the chunk loop emits.
ChunkEmission(chunk_bits) ==
    Emit(Emit(Emit(Emit(LadderEmission,
                        AndEmission(chunk_bits[1], chunk_bits[2])),
                   WitnessEmission),
              ConstraintEmission),
         MontgomeryAddEmission)

\* One iteration of the chunk loop on the accumulating sum: lines 100-152.
\* chunk = <<chunk_bits, base>>.
ChunkFold(s, chunk) ==
    IF Len(chunk[1]) < BHP_CHUNK_SIZE THEN Failed
    ELSE LET pt == ChunkPoint(chunk[1], chunk[2])
         IN IF ~pt.ok THEN Failed
            ELSE MontgomeryAdd(s, <<pt.x, pt.y>>)

\* edwards_x = sum_x / sum_y;  edwards_y = (sum_x - 1) / (sum_x + 1);
\* Group::from_xy_coordinates(edwards_x, edwards_y)
WindowGroup(s) ==
    IF s[2] = Zero \/ FAdd(s[1], One) = Zero THEN Failed
    ELSE LET edwards_x == FMul(s[1], FInv(s[2]))
             edwards_y == FMul(FSub(s[1], One), FInv(FAdd(s[1], One)))
         IN IF OnCurve(<<edwards_x, edwards_y>>) THEN Ok(edwards_x, edwards_y)
            ELSE Failed

WindowEmission(accIsConstant) ==
    Emit(Emit(Emit(DivEmission, DivEmission), FromXYEmission),
         GroupAddEmission(accIsConstant))

\* let mut sum_x = Field::zero(); let mut sum_y = Field::zero();
SumInit == <<Zero, Zero>>

(* ---------------------------------------------------------------------- *)
(* hash as a function of its input: lines 22-159.                          *)
(* ---------------------------------------------------------------------- *)
RECURSIVE FoldChunks(_, _, _)
FoldChunks(s, chunks, k) ==
    IF k > Len(chunks) \/ ~s.ok THEN s
    ELSE FoldChunks(ChunkFold(<<s.x, s.y>>, chunks[k]), chunks, k + 1)

\* The closure handed to .map(): the group element of one window.
WindowPoint(window) ==
    LET s == FoldChunks(Ok(SumInit[1], SumInit[2]), WindowChunks(window), 1)
    IN IF s.ok THEN WindowGroup(<<s.x, s.y>>) ELSE Failed

\* .fold(Group::zero(), |acc, group| acc + group)
RECURSIVE FoldWindows(_, _, _)
FoldWindows(a, windows, k) ==
    IF k > Len(windows) \/ ~a.ok THEN a
    ELSE LET g == WindowPoint(windows[k])
         IN IF g.ok
            THEN LET r == GroupAdd(<<a.x, a.y>>, <<g.x, g.y>>)
                 IN FoldWindows(Ok(r[1], r[2]), windows, k + 1)
            ELSE Failed

HashBitsInner(bools, nw, ws, bs) ==
    IF TooShort(Len(bools), ws) \/ TooLong(Len(bools), nw, ws) THEN Failed
    ELSE FoldWindows(Ok(GroupZero[1], GroupZero[2]), Windows(Pad(bools), ws, bs), 1)

\* self.hash_bits_inner(input).to_x_coordinate()
Hash(bools, nw, ws, bs) ==
    LET g == HashBitsInner(bools, nw, ws, bs)
    IN [ok |-> g.ok, value |-> g.x]

(* ---------------------------------------------------------------------- *)
(* The parameter set.                                                      *)
(* ---------------------------------------------------------------------- *)
RECURSIVE Pow16(_)
Pow16(j) == IF j = 0 THEN 1 ELSE 16 * Pow16(j - 1)

\* The largest magnitude of the scalar a window of ws chunks multiplies its
\* generator by: the sum of 4 * 2^(4j) over the chunks j.
RECURSIVE MaxWindowScalar(_)
MaxWindowScalar(ws) ==
    IF ws = 0 THEN 0 ELSE 4 * Pow16(ws - 1) + MaxWindowScalar(ws - 1)

\* The window size the curve supports: the window scalars and their
\* negations are distinct modulo the subgroup order.
ValidWindowSize(ws) == 2 * MaxWindowScalar(ws) < SubgroupOrder

\* bases[i][j] = 2^(4(j-1)) * h_i, with h_i the generator of window i.
Setup(seed, nw, ws) ==
    [i \in 1 .. nw |->
        [j \in 1 .. ws |->
            GroupMul(Pow16(j - 1), GroupMul(seed + i - 1, Generator))]]

BitStrings(n) == UNION {[1 .. k -> BOOLEAN] : k \in 0 .. n}

AlgIdle == [op |-> "idle"]

(* ---------------------------------------------------------------------- *)
(* The hash invocation as a state machine.                                 *)
(* ---------------------------------------------------------------------- *)
Init ==
    /\ NUM_WINDOWS \in 2 .. MaxNumWindows
    /\ WINDOW_SIZE \in {ws \in 1 .. MaxWindowSize : ValidWindowSize(ws)}
    /\ \E seed \in 1 .. MaxSeed : bases = Setup(seed, NUM_WINDOWS, WINDOW_SIZE)
    /\ mode \in Modes
    /\ input \in BitStrings(MaxLen)
    /\ pc = "call"
    /\ padded = <<>>
    /\ win = 1
    /\ chk = 1
    /\ sum = SumInit
    /\ acc = GroupZero
    /\ result = Zero
    /\ ctx = InjectEmission(mode, input)
    /\ consumed = <<>>
    /\ alg = AlgIdle

\* Mutant: the length checks run after the constants are declared.
ValidateAfterDeclare ==
    /\ pc = "call"
    /\ pc' = IF TooShort(Len(input), WINDOW_SIZE) THEN "halted_short"
             ELSE IF TooLong(Len(input), NUM_WINDOWS, WINDOW_SIZE) THEN "halted_long"
             ELSE "validated"
    /\ ctx' = Emit(ctx, [NoEmission EXCEPT !.constants = 3])
    /\ UNCHANGED <<NUM_WINDOWS, WINDOW_SIZE, bases, mode, input, padded, win, chk,
                   sum, acc, result, consumed, alg>>

\* Lines 27-38: the two length checks; E::halt does not return.
Validate ==
    /\ pc = "call"
    /\ pc' = IF TooShort(Len(input), WINDOW_SIZE) THEN "halted_short"
             ELSE IF TooLong(Len(input), NUM_WINDOWS, WINDOW_SIZE) THEN "halted_long"
             ELSE "validated"
    /\ UNCHANGED <<NUM_WINDOWS, WINDOW_SIZE, bases, mode, input, padded, win, chk,
                   sum, acc, result, ctx, consumed, alg>>

\* Lines 40-53: pad to a multiple of BHP_CHUNK_SIZE, declare 1/2, A and B.
PadInput ==
    /\ pc = "validated"
    /\ padded' = Pad(Inject(mode, input))
    /\ ctx' = Emit(Emit(ctx, IF Padding(Len(input)) # 0 THEN ConstantEmission
                             ELSE NoEmission),
                   [NoEmission EXCEPT !.constants = 3])
    /\ pc' = "hashing"
    /\ UNCHANGED <<NUM_WINDOWS, WINDOW_SIZE, bases, mode, input, win, chk,
                   sum, acc, result, consumed, alg>>

CurWindows == Windows(padded, WINDOW_SIZE, bases)

\* Lines 100-152: one chunk of the current window.
ChunkStep ==
    /\ pc = "hashing"
    /\ win <= Len(CurWindows)
    /\ chk <= Len(WindowChunks(CurWindows[win]))
    /\ LET chunk == WindowChunks(CurWindows[win])[chk]
           s == ChunkFold(sum, chunk)
       IN IF s.ok
          THEN /\ sum' = <<s.x, s.y>>
               /\ chk' = chk + 1
               /\ ctx' = Emit(ctx, ChunkEmission(chunk[1]))
               /\ consumed' = Append(consumed,
                                     [window |-> win, chunk |-> chk,
                                      bits |-> chunk[1], base |-> chunk[2]])
               /\ pc' = pc
          ELSE /\ pc' = "failed"
               /\ UNCHANGED <<sum, chk, ctx, consumed>>
    /\ UNCHANGED <<NUM_WINDOWS, WINDOW_SIZE, bases, mode, input, padded, win,
                   acc, result, alg>>

\* Lines 154-158: convert the window's sum and add it to the fold.
WindowStep ==
    /\ pc = "hashing"
    /\ win <= Len(CurWindows)
    /\ chk > Len(WindowChunks(CurWindows[win]))
    /\ LET g == WindowGroup(sum)
       IN IF g.ok
          THEN /\ acc' = GroupAdd(acc, <<g.x, g.y>>)
               /\ ctx' = Emit(ctx, WindowEmission(win = 1))
               /\ win' = win + 1
               /\ chk' = 1
               /\ sum' = SumInit
               /\ pc' = pc
          ELSE /\ pc' = "failed"
               /\ UNCHANGED <<acc, ctx, win, chk, sum>>
    /\ UNCHANGED <<NUM_WINDOWS, WINDOW_SIZE, bases, mode, input, padded,
                   result, consumed, alg>>

\* Line 23: to_x_coordinate of the fold.
Finish ==
    /\ pc = "hashing"
    /\ win > Len(CurWindows)
    /\ result' = acc[1]
    /\ pc' = "done"
    /\ UNCHANGED <<NUM_WINDOWS, WINDOW_SIZE, bases, mode, input, padded, win, chk,
                   sum, acc, ctx, consumed, alg>>

Next == Validate \/ PadInput \/ ChunkStep \/ WindowStep \/ Finish

Spec == Init /\ [][Next]_vars

\* The stepwise run computes the function Hash.
StepwiseIsHash ==
    /\ pc = "done" =>
          Hash(Inject(mode, input), NUM_WINDOWS, WINDOW_SIZE, bases)
              = [ok |-> TRUE, value |-> result]
    /\ pc # "failed"

(* ---------------------------------------------------------------------- *)
(* The selector, the sign correction and the incomplete addition applied   *)
(* to arbitrary field values.                                              *)
(* ---------------------------------------------------------------------- *)
CandValues == 0 .. MaxCand
CoordValues == 0 .. MaxCoord

\* The operands drawn for the selection (two bits, four x- and four
\* y-candidates), the sign correction (a bit and any y of the field) and the
\* incomplete addition (two coordinate pairs).
AlgInputs(a) ==
    \/ \E xs \in [1 .. 4 -> CandValues], ys \in [1 .. 4 -> CandValues],
          b0 \in BOOLEAN, b1 \in BOOLEAN :
            a = [op |-> "select", x_bases |-> xs, y_bases |-> ys,
                 b0 |-> b0, b1 |-> b1, done |-> FALSE, out |-> Failed]
    \/ \E y \in Fp, b2 \in BOOLEAN :
            a = [op |-> "sign", y |-> y, b2 |-> b2, done |-> FALSE, out |-> Failed]
    \/ \E this \in CoordValues \X CoordValues, that \in CoordValues \X CoordValues :
            a = [op |-> "madd", this |-> this, that |-> that,
                 done |-> FALSE, out |-> Failed]

AlgInit ==
    /\ AlgInputs(alg)
    /\ NUM_WINDOWS = 2
    /\ WINDOW_SIZE = 1
    /\ bases = Setup(1, 2, 1)
    /\ mode = "Private"
    /\ input = <<>>
    /\ pc = "idle"
    /\ padded = <<>>
    /\ win = 1
    /\ chk = 1
    /\ sum = SumInit
    /\ acc = GroupZero
    /\ result = Zero
    /\ ctx = NoEmission
    /\ consumed = <<>>

\* Lines 114-132 on the candidates and bits of alg.
Select ==
    /\ alg.op = "select"
    /\ ~alg.done
    /\ LET bit_0 == FromBoolean(alg.b0)
           bit_1 == FromBoolean(alg.b1)
           bit_0_and_1 == FromBoolean(BooleanAnd(alg.b0, alg.b1))
       IN alg' = [alg EXCEPT
                     !.done = TRUE,
                     !.out = Ok(MontgomeryX(alg.x_bases, bit_0, bit_1, bit_0_and_1),
                                UnsignedY(alg.y_bases, bit_0, bit_1, bit_0_and_1))]
    /\ UNCHANGED hashVars

\* Lines 134-147 on the y and bit of alg: the witness, and whether the
\* binding constraint accepts it.
Sign ==
    /\ alg.op = "sign"
    /\ ~alg.done
    /\ LET montgomery_y == SignWitness(alg.b2, alg.y)
       IN alg' = [alg EXCEPT
                     !.done = TRUE,
                     !.out = [ok |-> SignConstraint(FromBoolean(alg.b2), alg.y,
                                                    montgomery_y),
                              x |-> Zero, y |-> montgomery_y]]
    /\ UNCHANGED hashVars

\* Lines 55-84 on the two points of alg.
MAdd ==
    /\ alg.op = "madd"
    /\ ~alg.done
    /\ alg' = [alg EXCEPT !.done = TRUE, !.out = MontgomeryAdd(alg.this, alg.that)]
    /\ UNCHANGED hashVars

AlgNext == Select \/ Sign \/ MAdd

AlgSpec == AlgInit /\ [][AlgNext]_vars

(* ---------------------------------------------------------------------- *)
(* The reference hash point: the group sum of                              *)
(* (1 - 2*b2) * (1 + b0 + 2*b1) * bases[i][j] over the chunks of the       *)
(* zero-padded input.                                                      *)
(* ---------------------------------------------------------------------- *)
\* Bit k of the zero-padded input, as a number.
RefBit(bits, k) == IF k <= Len(bits) /\ bits[k] THEN 1 ELSE 0

\* The term of the c-th chunk of the input (chunk j of window i).
RefTerm(bits, bs, ws, c) ==
    LET i == ((c - 1) \div ws) + 1
        j == ((c - 1) % ws) + 1
        b0 == RefBit(bits, 3 * c - 2)
        b1 == RefBit(bits, 3 * c - 1)
        b2 == RefBit(bits, 3 * c)
        m == GroupMul(1 + b0 + 2 * b1, bs[i][j])
    IN IF b2 = 1 THEN GroupNeg(m) ELSE m

\* The group sum of the terms of the chunks from .. to.
RECURSIVE RefSum(_, _, _, _, _)
RefSum(bits, bs, ws, from, to) ==
    IF from > to THEN GroupZero
    ELSE GroupAdd(RefSum(bits, bs, ws, from, to - 1), RefTerm(bits, bs, ws, to))

NumChunks(len) == (len + 2) \div 3

RefHashPoint(bits, bs, ws) == RefSum(bits, bs, ws, 1, NumChunks(Len(bits)))

Accepted(len, nw, ws) == len > ws * 3 /\ len <= nw * ws * 3

Halted == pc \in {"halted_short", "halted_long", "failed"}

\* C1: whenever hash returns, its result is the x-coordinate of the
\* reference hash point of the input.
C1_BitExact ==
    pc = "done" => result = RefHashPoint(input, bases, WINDOW_SIZE)[1]

\* The parity of the number of windows decides C1: each window contributes
\* the point of order two in addition to its reference sum.
C1_EvenWindows ==
    (pc = "done" /\ (win - 1) % 2 = 0)
        => result = RefHashPoint(input, bases, WINDOW_SIZE)[1]

C1_OddWindows ==
    (pc = "done" /\ (win - 1) % 2 = 1)
        => result = FNeg(RefHashPoint(input, bases, WINDOW_SIZE)[1])

ExplicitlyPadded(bits) ==
    bits \o [k \in 1 .. (3 - (Len(bits) % 3)) |-> FALSE]

\* C3: the hash of an accepted input whose length is not a multiple of 3 is
\* the hash of the input followed by (3 - L mod 3) false bits, which is an
\* accepted input too.
C3_PaddingIdempotence ==
    (pc = "done" /\ Len(input) % 3 # 0) =>
        LET ext == ExplicitlyPadded(input)
        IN /\ Len(ext) % 3 = 0
           /\ Accepted(Len(ext), NUM_WINDOWS, WINDOW_SIZE)
           /\ Hash(Inject(mode, ext), NUM_WINDOWS, WINDOW_SIZE, bases)
                  = [ok |-> TRUE, value |-> result]

C3_Witness ==
    /\ pc = "done"
    /\ Len(input) % 3 = 1
    /\ \E k \in 1 .. Len(input) : input[k]

\* What a hash invocation has emitted after `chunks` chunks and `windows`
\* windows, as a function of the input length and mode only.
ExpectedEmission(len, m, chunks, windows) ==
    LET ands == IF m = "Constant" THEN 0
                ELSE IF len % 3 = 1 /\ chunks = NumChunks(len) THEN chunks - 1
                ELSE chunks
        vars_ == ands + 4 * chunks + 7 * windows
                 + (IF windows = 0 THEN 0 ELSE 2 + 4 * (windows - 1))
    IN [constants |-> (IF len % 3 # 0 THEN 1 ELSE 0) + 3 + 8 * chunks,
        public |-> 0,
        private |-> vars_,
        constraints |-> vars_]

\* C4: at every point of an invocation the numbers of constants, public
\* variables, private variables and constraints emitted are determined by
\* the parameters, the input length, the mode and the number of chunks and
\* windows processed: they do not depend on the bit values.
C4_EmissionDeterminism ==
    pc \in {"hashing", "done"} =>
        ctx = Emit(InjectEmission(mode, input),
                   ExpectedEmission(Len(input), mode, Len(consumed), win - 1))

C4_Witness ==
    /\ pc = "done"
    /\ mode = "Private"
    /\ \E k \in 1 .. Len(input) : k % 3 = 0 /\ input[k]
    /\ \E k \in 1 .. Len(input) : k % 3 = 0 /\ ~input[k]

\* The candidate the bit pair selects according to the claim as written:
\* (0,0), (0,1), (1,0), (1,1) select candidate 1, 2, 3, 4.
ClaimedIndex(b0, b1) == 1 + 2 * FromBoolean(b0) + FromBoolean(b1)

\* The candidate the bit pair selects: 1 + b0 + 2*b1.
SelectedIndex(b0, b1) == 1 + FromBoolean(b0) + 2 * FromBoolean(b1)

\* C5 as written: (b0,b1) = (0,0), (0,1), (1,0), (1,1) reproduce candidate
\* 1, 2, 3, 4.
C5_SelectorAsClaimed ==
    (alg.op = "select" /\ alg.done) =>
        alg.out = Ok(alg.x_bases[ClaimedIndex(alg.b0, alg.b1)],
                     alg.y_bases[ClaimedIndex(alg.b0, alg.b1)])

\* C5 amended: (b0,b1) = (0,0), (1,0), (0,1), (1,1) reproduce candidate
\* 1, 2, 3, 4: the selection formulas return candidate 1 + b0 + 2*b1.
C5_Selector ==
    (alg.op = "select" /\ alg.done) =>
        alg.out = Ok(alg.x_bases[SelectedIndex(alg.b0, alg.b1)],
                     alg.y_bases[SelectedIndex(alg.b0, alg.b1)])

C5_Witness ==
    /\ alg.op = "select"
    /\ alg.done
    /\ alg.b0 /\ ~alg.b1
    /\ alg.x_bases = <<0, 1, 2, 1>>
    /\ alg.y_bases = <<2, 0, 1, 2>>
    /\ alg.out = Ok(1, 0)

\* C6: the witness y' = (b2 ? -y : y) satisfies (b2 - 1/2) * (-2y) == y',
\* no other value does, and it is y for b2 = 0 and -y for b2 = 1.
C6_SignCorrection ==
    (alg.op = "sign" /\ alg.done) =>
        /\ alg.out.ok
        /\ {m \in Fp : (((FromBoolean(alg.b2) - FHalf) * (0 - 2 * alg.y)) - m) % P = 0}
               = {alg.out.y}
        /\ ~alg.b2 => alg.out.y = alg.y
        /\ alg.b2 => (alg.out.y + alg.y) % P = 0

C6_Witness ==
    /\ alg.op = "sign"
    /\ alg.done
    /\ alg.b2
    /\ alg.y = 5
    /\ alg.out.y = P - 5

\* The triples (lambda, sum_x, sum_y) the three binding equalities accept.
\* The first equality reads lambda only and the second lambda and sum_x
\* only, so the triples are found one coordinate at a time.
BoundTriples(this, that) ==
    UNION {UNION {{<<l, sx, sy>> :
                      sy \in {v \in Fp :
                                 (l * (this[1] - sx) - (this[2] + v)) % P = 0}} :
                  sx \in {u \in Fp :
                             (COEFF_B * l * l
                                - (COEFF_A + this[1] + that[1] + u)) % P = 0}} :
           l \in {t \in Fp :
                     (t * (that[1] - this[1]) - (that[2] - this[2])) % P = 0}}

C7_HaltBeforeEmission ==
    pc \in {"halted_short", "halted_long"} =>
        /\ ctx = InjectEmission(mode, input)
        /\ padded = <<>>
        /\ consumed = <<>>

C7_Witness ==
    /\ pc = "halted_short"
    /\ Len(input) = WINDOW_SIZE * 3
    /\ mode = "Private"
    /\ ctx.private = Len(input)

\* C8: the accumulator of a window, started at (0,0), is the Montgomery sum
\* of the chunk points folded so far; after the first chunk it is that
\* chunk's point.
C8_ZeroIsIdentity ==
    (pc = "hashing" /\ chk > 1) =>
        Ok(sum[1], sum[2])
            = ToMontgomery(RefSum(input, bases, WINDOW_SIZE,
                                  (win - 1) * WINDOW_SIZE + 1,
                                  (win - 1) * WINDOW_SIZE + chk - 1))

\* What the accumulator holds instead: the Montgomery sum of the chunk
\* points plus the point (0,0) of order two, (1/x, -y/x^2) for a sum (x, y).
C8_ShiftedByOrderTwo ==
    (pc = "hashing" /\ chk > 1) =>
        LET m == ToMontgomery(RefSum(input, bases, WINDOW_SIZE,
                                     (win - 1) * WINDOW_SIZE + 1,
                                     (win - 1) * WINDOW_SIZE + chk - 1))
        IN /\ m.ok
           /\ sum[1] = FInv(m.x)
           /\ sum[2] = FNeg(FMul(m.y, FSquare(FInv(m.x))))

\* C10: when hash returns, the padded length is a multiple of 3 not above
\* NUM_WINDOWS*WINDOW_SIZE*3, every chunk processed has 3 bits,
\* ceil(paddedL / (WINDOW_SIZE*3)) >= 2 windows have been processed, chunk j
\* of window i was paired with bases[i][j], and every bit of the padded
\* input has been consumed exactly once.
C10_PartitionCoverage ==
    pc = "done" =>
        LET pl == Len(padded)
            nwin == (pl + WINDOW_SIZE * 3 - 1) \div (WINDOW_SIZE * 3)
        IN /\ pl % 3 = 0
           /\ pl <= NUM_WINDOWS * WINDOW_SIZE * 3
           /\ win - 1 = nwin
           /\ nwin >= 2
           /\ {e.window : e \in {consumed[n] : n \in 1 .. Len(consumed)}} = 1 .. nwin
           /\ \A n \in 1 .. Len(consumed) :
                 LET e == consumed[n]
                 IN /\ Len(e.bits) = 3
                    /\ e.chunk \in 1 .. WINDOW_SIZE
                    /\ e.base = bases[e.window][e.chunk]
                    /\ \A k \in 1 .. 3 :
                          /\ e.bits[k].pos
                                = (e.window - 1) * WINDOW_SIZE * 3 + (e.chunk - 1) * 3 + k
                          /\ e.bits[k] = padded[e.bits[k].pos]
           /\ \A q \in 1 .. pl :
                 Cardinality({<<n, k>> \in (1 .. Len(consumed)) \X (1 .. 3) :
                                 consumed[n].bits[k].pos = q}) = 1

C10_Witness ==
    /\ pc = "done"
    /\ WINDOW_SIZE = 2
    /\ Len(input) = 7
    /\ Len(padded) = 9
    /\ Len(consumed) = 3

====
